---- MODULE Spec2Model ----
(***************************************************************************)
(* Request-id capture (requestIdMiddleware), log-field injection           *)
(* (requestIdFormatter) and line rendering (cloudWatchFormatter) of        *)
(* aws-slipstream-nodejs, over the continuation-local store 'logger-session'*)
(* of cls-hooked.                                                          *)
(*                                                                         *)
(* A JavaScript string is a sequence of tokens (characters, or longer      *)
(* pieces that are never split).  `undefined` is the record Undefined.     *)
(***************************************************************************)
EXTENDS Integers, Sequences, FiniteSets, TLC

\* ------------------------------------------------------------------ bounds
MaxReq == 2          \* requests that arrive
MaxAsync == 2        \* asynchronous continuations ever scheduled
MaxHeaderLen == 6    \* characters of a trace header (SpecHdr)
MaxCalls == 2        \* formatter calls on one record
MaxValueLen == 4     \* characters of the first value of a repeated header
MaxLater == 1        \* values that follow the first in a repeated header

Req == 1..MaxReq

\* ------------------------------------------------------------- JS values
Undefined == [t |-> "undefined"]
Str(s) == [t |-> "string", v |-> s]
Arr(a) == [t |-> "array", v |-> a]
TypeError == [t |-> "TypeError"]

\* JavaScript truthiness of undefined / string values: '' and undefined are falsy.
Truthy(x) == x.t = "string" /\ x.v # <<>>

\* ---------------------------------------------------------- String.split
RECURSIVE SplitAll(_, _)
SplitAll(s, sep) ==
  IF \A i \in 1..Len(s) : s[i] # sep
    THEN <<s>>
    ELSE LET i == CHOOSE k \in 1..Len(s) :
                    s[k] = sep /\ \A j \in 1..(k - 1) : s[j] # sep
         IN <<SubSeq(s, 1, i - 1)>> \o SplitAll(SubSeq(s, i + 1, Len(s)), sep)

\* s.split(sep, limit): split everywhere, keep the first `limit` pieces.
Split(s, sep, limit) ==
  LET all == SplitAll(s, sep)
  IN IF Len(all) <= limit THEN all ELSE SubSeq(all, 1, limit)

\* A variant that takes the last value of a repeated header.
FlatFirst_last(h) ==
  IF h.t = "array"
    THEN IF Len(h.v) = 0 THEN Undefined ELSE Str(h.v[Len(h.v)])
    ELSE h

\* [h].flat()[0]: the header itself, or the first value of a repeated header.
FlatFirst(h) ==
  IF h.t = "array"
    THEN IF Len(h.v) = 0 THEN Undefined ELSE Str(h.v[1])
    ELSE h

\* A variant that parses without the `if (traceId)` guard: split on undefined throws.
getRequestId_unguarded(h) ==
  LET traceId == FlatFirst(h)
  IN IF traceId.t # "string"
       THEN TypeError
       ELSE LET current == Split(traceId.v, ";", 2)[1]
                parts == Split(current, "-", 3)
            IN IF Len(parts) >= 3 THEN Str(parts[3]) ELSE Undefined

\* A variant whose split limit keeps the remainder in the last piece.
getRequestId_remainder(h) ==
  LET traceId == FlatFirst(h)
  IN IF Truthy(traceId)
       THEN LET current == Split(traceId.v, ";", 2)[1]
                i1 == IF \E k \in 1..Len(current) : current[k] = "-"
                        THEN CHOOSE k \in 1..Len(current) :
                               current[k] = "-" /\ \A j \in 1..(k - 1) : current[j] # "-"
                        ELSE 0
                rest1 == IF i1 = 0 THEN <<>> ELSE SubSeq(current, i1 + 1, Len(current))
                i2 == IF \E k \in 1..Len(rest1) : rest1[k] = "-"
                        THEN CHOOSE k \in 1..Len(rest1) :
                               rest1[k] = "-" /\ \A j \in 1..(k - 1) : rest1[j] # "-"
                        ELSE 0
            IN IF i1 = 0 \/ i2 = 0
                 THEN Undefined
                 ELSE Str(SubSeq(rest1, i2 + 1, Len(rest1)))
       ELSE Undefined

\* getRequestId(req), on the value of req.headers['x-amzn-trace-id'].
getRequestId(h) ==
  LET traceId == FlatFirst(h)
  IN IF Truthy(traceId)
       THEN LET current == Split(traceId.v, ";", 2)[1]
                parts == Split(current, "-", 3)
            IN IF Len(parts) >= 3 THEN Str(parts[3]) ELSE Undefined
       ELSE Undefined

\* ------------------------------------------- cls-hooked namespace (session)
\* A namespace is [active, contexts, stack]: the active context (0 is null), the
\* context objects ever created (a context is a function from keys to values) and
\* the stack _set of contexts to return to.
NewNamespace == [active |-> 0, contexts |-> <<>>, stack |-> <<>>]

\* createContext(): Object.create(active or Object.prototype); the new context
\* sees what its parent holds.  Returns the namespace with the object allocated.
NsCreateContext(ns) ==
  [ns EXCEPT !.contexts =
     Append(@, IF ns.active = 0 THEN <<>> ELSE ns.contexts[ns.active])]

\* enter(context): push the active context, make `context` active.
NsEnter(ns, c) == [ns EXCEPT !.stack = Append(@, ns.active), !.active = c]

\* A variant of exit that leaves the context active.
NsExit_leak(ns, c) == ns

\* exit(context): pop when `context` is the active one, else drop it from _set.
NsExit(ns, c) ==
  IF ns.active = c
    THEN IF Len(ns.stack) = 0
           THEN [ns EXCEPT !.active = 0]
           ELSE [ns EXCEPT !.active = ns.stack[Len(ns.stack)],
                           !.stack = SubSeq(@, 1, Len(@) - 1)]
    ELSE IF \E i \in 1..Len(ns.stack) : ns.stack[i] = c
           THEN LET i == CHOOSE k \in 1..Len(ns.stack) :
                           ns.stack[k] = c
                           /\ \A j \in (k + 1)..Len(ns.stack) : ns.stack[j] # c
                IN [ns EXCEPT !.stack =
                      SubSeq(@, 1, i - 1) \o SubSeq(@, i + 1, Len(@))]
           ELSE ns

\* A variant of set that writes the value into every context (one shared slot).
NsSet_shared(ns, key, value) ==
  [ns EXCEPT !.contexts =
     [i \in DOMAIN ns.contexts |-> (key :> value) @@ ns.contexts[i]]]

\* A variant of set that stores nothing.
NsSet_noop(ns, key, value) == ns

\* set(key, value) on the active context (inside run there always is one).
NsSet(ns, key, value) ==
  IF ns.active = 0
    THEN ns
    ELSE [ns EXCEPT !.contexts[ns.active] = (key :> value) @@ @]

\* An error object: its identity and the context run attaches to it.
Error(id) == [id |-> id, context |-> 0]

\* A variant of run that catches the exception and returns normally.
RunCatch_swallow(ns, e, c) ==
  [ns |-> NsExit(ns, c), outcome |-> [t |-> "return"]]

\* A variant of run whose exception path empties the context before leaving it.
RunCatch_cleanup(ns, e, c) ==
  [ns |-> NsExit([ns EXCEPT !.contexts[c] = <<>>], c),
   outcome |-> [t |-> "throw", error |-> [e EXCEPT !.context = c]]]

\* session.run when fn throws e in context c: the catch attaches the context to
\* the exception and rethrows it, the finally exits the context.
RunCatch(ns, e, c) ==
  [ns |-> NsExit(ns, c),
   outcome |-> [t |-> "throw", error |-> [e EXCEPT !.context = c]]]

\* get(key): undefined without an active context or when the key was never set.
NsGet(ns, key) ==
  IF ns.active = 0
    THEN Undefined
    ELSE IF key \in DOMAIN ns.contexts[ns.active]
           THEN ns.contexts[ns.active][key]
           ELSE Undefined

\* --------------------------------------------------------- the formatters
\* The display string `[${requestId.from}:${requestId.id}]`.
Display(requestId) == <<"[", requestId.from, ":">> \o requestId.id \o <<"]">>

NoRequest == <<"[", "no-request", "]">>

\* A variant that also adds requestIdString when it prepends to the message.
requestIdFormatter_both(info, options, ns) ==
  LET opts == IF options = Undefined THEN [addToMessage |-> FALSE] ELSE options
      requestId == IF ns.active # 0 THEN NsGet(ns, "requestId") ELSE Undefined
      has == ns.active # 0 /\ requestId # Undefined
      requestIdString == IF has THEN Display(requestId) ELSE NoRequest
      info1 == IF has THEN ("requestId" :> requestId) @@ info ELSE info
      info2 == IF opts.addToMessage
                 THEN ("message" :> (requestIdString \o <<" ">> \o info1["message"]))
                      @@ info1
                 ELSE info1
  IN [info |-> ("requestIdString" :> requestIdString) @@ info2,
      requestIdString |-> requestIdString, ns |-> ns]

\* A variant whose default, without options, is addToMessage: true.
requestIdFormatter_defaultTrue(info, options, ns) ==
  LET opts == IF options = Undefined THEN [addToMessage |-> TRUE] ELSE options
      requestId == IF ns.active # 0 THEN NsGet(ns, "requestId") ELSE Undefined
      has == ns.active # 0 /\ requestId # Undefined
      requestIdString == IF has THEN Display(requestId) ELSE NoRequest
      info1 == IF has THEN ("requestId" :> requestId) @@ info ELSE info
      info2 == IF opts.addToMessage
                 THEN ("message" :> (requestIdString \o <<" ">> \o info1["message"]))
                      @@ info1
                 ELSE ("requestIdString" :> requestIdString) @@ info1
  IN [info |-> info2, requestIdString |-> requestIdString, ns |-> ns]

\* A variant that takes the identifier out of the context once it has used it.
requestIdFormatter_consume(info, options, ns) ==
  LET opts == IF options = Undefined THEN [addToMessage |-> FALSE] ELSE options
      requestId == IF ns.active # 0 THEN NsGet(ns, "requestId") ELSE Undefined
      has == ns.active # 0 /\ requestId # Undefined
      requestIdString == IF has THEN Display(requestId) ELSE NoRequest
      info1 == IF has THEN ("requestId" :> requestId) @@ info ELSE info
      info2 == IF opts.addToMessage
                 THEN ("message" :> (requestIdString \o <<" ">> \o info1["message"]))
                      @@ info1
                 ELSE ("requestIdString" :> requestIdString) @@ info1
  IN [info |-> info2, requestIdString |-> requestIdString,
      ns |-> NsSet(ns, "requestId", Undefined)]

\* A variant that reads the identifier inside a context of its own, and stays there.
requestIdFormatter_enter(info, options, ns) ==
  LET opts == IF options = Undefined THEN [addToMessage |-> FALSE] ELSE options
      requestId == IF ns.active # 0 THEN NsGet(ns, "requestId") ELSE Undefined
      has == ns.active # 0 /\ requestId # Undefined
      requestIdString == IF has THEN Display(requestId) ELSE NoRequest
      info1 == IF has THEN ("requestId" :> requestId) @@ info ELSE info
      info2 == IF opts.addToMessage
                 THEN ("message" :> (requestIdString \o <<" ">> \o info1["message"]))
                      @@ info1
                 ELSE ("requestIdString" :> requestIdString) @@ info1
      ns1 == NsCreateContext(ns)
  IN [info |-> info2, requestIdString |-> requestIdString,
      ns |-> NsEnter(ns1, Len(ns1.contexts))]

\* requestIdFormatter's transform on (info, options) with the namespace it reads.
\* Returns the record, the local requestIdString and the namespace afterwards.
requestIdFormatter(info, options, ns) ==
  LET opts == IF options = Undefined THEN [addToMessage |-> FALSE] ELSE options
      requestId == IF ns.active # 0 THEN NsGet(ns, "requestId") ELSE Undefined
      has == ns.active # 0 /\ requestId # Undefined
      requestIdString == IF has THEN Display(requestId) ELSE NoRequest
      info1 == IF has THEN ("requestId" :> requestId) @@ info ELSE info
      info2 == IF opts.addToMessage
                 THEN ("message" :> (requestIdString \o <<" ">> \o info1["message"]))
                      @@ info1
                 ELSE ("requestIdString" :> requestIdString) @@ info1
  IN [info |-> info2, requestIdString |-> requestIdString, ns |-> ns]

\* winston.format.timestamp: adds info.timestamp (one opaque token).
Timestamp(info) == ("timestamp" :> <<"TS">>) @@ info

\* `${x}` of a plain object.
ObjectToString(o) == <<"[object Object]">>

\* JSON.stringify of the remaining fields; they are string-valued in this model.
RECURSIVE JsonFields(_, _)
JsonFields(info, keys) ==
  IF keys = {}
    THEN <<>>
    ELSE LET k == CHOOSE x \in keys : TRUE
             tail == JsonFields(info, keys \ {k})
         IN <<"\"", k, "\"", ":", "\"">> \o info[k] \o <<"\"">>
            \o (IF tail = <<>> THEN <<>> ELSE <<",">> \o tail)

Whitespace == {" ", "\n"}

\* String.trim()
RECURSIVE Trim(_)
Trim(s) ==
  IF s = <<>> THEN s
  ELSE IF s[1] \in Whitespace THEN Trim(SubSeq(s, 2, Len(s)))
  ELSE IF s[Len(s)] \in Whitespace THEN Trim(SubSeq(s, 1, Len(s) - 1))
  ELSE s

\* cloudWatchFormatter's printf template.
cloudWatchFormatter(info) ==
  LET Field(k) == IF k \in DOMAIN info THEN info[k] ELSE <<"undefined">>
      restKeys == DOMAIN info \ {"level", "message", "timestamp", "requestId",
                                 "stack", "meta", "_headers"}
      restStr == IF restKeys = {}
                   THEN <<>>
                   ELSE <<"{">> \o JsonFields(info, restKeys) \o <<"}">>
      requestIdStr == IF "requestId" \in DOMAIN info
                        THEN ObjectToString(info["requestId"])
                        ELSE <<"no-request">>
      stackStr == IF "stack" \in DOMAIN info THEN info["stack"] ELSE <<>>
  IN Trim(Field("timestamp") \o <<" ", "[">> \o requestIdStr \o <<"]", " ">>
          \o Field("level") \o <<":", " ">> \o Field("message") \o <<" ">>
          \o restStr \o <<"\n">> \o stackStr)

\* requestLogMessage as express-winston renders it.
requestLogMessage(method, url, statusCode, responseTime) ==
  <<method, " ", url, " ", "->", " ", "HTTP", " ", statusCode, " ", "in", " ",
    responseTime, "ms">>

\* ------------------------------------------------------------------ state
VARIABLES
  header,     \* header[r]: the x-amzn-trace-id value request r arrived with
  session,    \* the namespace 'logger-session'
  reqId,      \* reqId[r]: req.requestId of request r
  mw,         \* mw[r]: "idle", "next" (inside next()), "returned" or "threw"
  running,    \* the callback the event loop is executing, or Idle
  pending,    \* the asynchronous continuations scheduled and not yet run
  scheduled,  \* how many continuations were scheduled so far
  uuidCount,  \* identifiers uuid.v4() has produced
  raised,     \* raised[r]: the error r's downstream chain threw in next(), if any
  outcome,    \* outcome[r]: what the middleware call gave its caller, if it ended
  fmt         \* the formatter call just made by the running callback

vars == <<header, session, reqId, mw, running, pending, scheduled, uuidCount,
          raised, outcome, fmt>>

Idle == [kind |-> "idle", req |-> 0, ctx |-> 0, depth |-> 0]
NoFmt == [n |-> 0]
NoError == [t |-> "none"]
NoOutcome == [t |-> "none"]

\* The errors a downstream handler throws.
Errors == {Error("boom")}

\* uuid.v4(): a value no earlier call returned.
uuidv4(n) == <<"uuid" \o ToString(n + 1)>>

HeaderChars == {"-", ";", "a", "b"}

\* Every header value of at most MaxHeaderLen characters, and the absent header.
AllHeaders ==
  {Undefined} \cup
  {Str(s) : s \in UNION {[1..n -> HeaderChars] : n \in 0..MaxHeaderLen}}

\* The header values requests carry in Spec.
SampleHeaders ==
  { Undefined,
    Str(<<"R", "=", "1", "-", "5e", "-", "a", ";", "P">>),
    Arr(<< <<"S", "-", "1", "-", "b", "-", "c">>, <<"x">> >>) }

Options == {Undefined, [addToMessage |-> TRUE], [addToMessage |-> FALSE]}

CompletionMessage == requestLogMessage("GET", "/", "200", "4")

Messages == {CompletionMessage}

Init ==
  /\ header = [r \in Req |-> Undefined]
  /\ session = NewNamespace
  /\ reqId = [r \in Req |-> Undefined]
  /\ mw = [r \in Req |-> "idle"]
  /\ running = Idle
  /\ pending = {}
  /\ scheduled = 0
  /\ uuidCount = 0
  /\ raised = [r \in Req |-> NoError]
  /\ outcome = [r \in Req |-> NoOutcome]
  /\ fmt = NoFmt

\* ---------------------------------------------------------------- actions
\* The middleware function on request r carrying header h: session.run(...) up to
\* and including the call of next(); the downstream chain then runs in the context.
Middleware(r, h) ==
  /\ running = Idle
  /\ mw[r] = "idle"
  /\ \A q \in 1..(r - 1) : mw[q] # "idle"
  /\ header' = [header EXCEPT ![r] = h]
  /\ LET ns1 == NsCreateContext(session)
         c == Len(ns1.contexts)
         ns2 == NsEnter(ns1, c)
         requestId == getRequestId(h)
     IN IF requestId = TypeError
          THEN /\ session' = RunCatch(ns2, Error("TypeError"), c).ns
               /\ outcome' = [outcome EXCEPT ![r] =
                                RunCatch(ns2, Error("TypeError"), c).outcome]
               /\ mw' = [mw EXCEPT ![r] = "threw"]
               /\ UNCHANGED <<reqId, running, uuidCount>>
          ELSE LET requestStructure ==
                     IF Truthy(requestId)
                       THEN [from |-> "aws", id |-> requestId.v]
                       ELSE [from |-> "int", id |-> uuidv4(uuidCount)]
               IN /\ session' = NsSet(ns2, "requestId", requestStructure)
                  /\ reqId' = [reqId EXCEPT ![r] = requestStructure]
                  /\ uuidCount' = IF Truthy(requestId) THEN uuidCount
                                                       ELSE uuidCount + 1
                  /\ mw' = [mw EXCEPT ![r] = "next"]
                  /\ running' = [kind |-> "handler", req |-> r, ctx |-> c,
                                 depth |-> 0]
                  /\ UNCHANGED outcome
  /\ UNCHANGED <<pending, scheduled, raised, fmt>>

\* next() returns: session.run leaves the context, the middleware returns.
NextReturns ==
  /\ running.kind = "handler"
  /\ session' = NsExit(session, running.ctx)
  /\ mw' = [mw EXCEPT ![running.req] = "returned"]
  /\ outcome' = [outcome EXCEPT ![running.req] = [t |-> "return"]]
  /\ running' = Idle
  /\ fmt' = NoFmt
  /\ UNCHANGED <<header, reqId, pending, scheduled, uuidCount, raised>>

\* next() throws e: session.run's catch and finally run, and what run propagates
\* leaves the middleware function, which has no handler of its own.
NextThrows(e) ==
  /\ running.kind = "handler"
  /\ LET out == RunCatch(session, e, running.ctx)
     IN /\ session' = out.ns
        /\ outcome' = [outcome EXCEPT ![running.req] = out.outcome]
        /\ mw' = [mw EXCEPT ![running.req] =
                    IF out.outcome.t = "throw" THEN "threw" ELSE "returned"]
  /\ raised' = [raised EXCEPT ![running.req] = e]
  /\ running' = Idle
  /\ fmt' = NoFmt
  /\ UNCHANGED <<header, reqId, pending, scheduled, uuidCount>>

\* A variant of the init hook that records no context.
AsyncInit_none(ns) == 0

\* The async hook's init: the context recorded for a new asynchronous resource.
AsyncInit(ns) == ns.active

\* The running callback schedules an asynchronous continuation.
Schedule ==
  /\ running # Idle
  /\ scheduled < MaxAsync
  /\ scheduled' = scheduled + 1
  /\ pending' = pending \cup {[req |-> running.req, ctx |-> AsyncInit(session),
                                depth |-> running.depth + 1]}
  /\ UNCHANGED <<header, session, reqId, mw, running, uuidCount, raised, outcome,
               fmt>>

\* The event loop runs continuation a: the before hook enters its context.
RunContinuation(a) ==
  /\ running = Idle
  /\ a \in pending
  /\ session' = IF a.ctx # 0 THEN NsEnter(session, a.ctx) ELSE session
  /\ running' = [kind |-> "continuation", req |-> a.req, ctx |-> a.ctx,
                 depth |-> a.depth]
  /\ pending' = pending \ {a}
  /\ UNCHANGED <<header, reqId, mw, scheduled, uuidCount, raised, outcome, fmt>>

\* Work that no request started (startup, a job): runs with no context.
Background ==
  /\ running = Idle
  /\ running' = [kind |-> "background", req |-> 0, ctx |-> 0, depth |-> 0]
  /\ UNCHANGED <<header, session, reqId, mw, pending, scheduled, uuidCount, raised,
               outcome, fmt>>

\* The running continuation or background callback ends: the after hook exits.
Finish ==
  /\ running.kind \in {"continuation", "background"}
  /\ session' = IF running.ctx # 0 THEN NsExit(session, running.ctx)
                                   ELSE session
  /\ running' = Idle
  /\ fmt' = NoFmt
  /\ UNCHANGED <<header, reqId, mw, pending, scheduled, uuidCount, raised, outcome>>

\* The running callback logs `message`: timestamp, requestIdFormatter(options),
\* cloudWatchFormatter on a new record.
Log(options, message) ==
  /\ running # Idle
  /\ LET info == Timestamp([level |-> <<"info">>, message |-> message])
         r == requestIdFormatter(info, options, session)
     IN /\ session' = r.ns
        /\ fmt' = [n |-> 1, options |-> options, given |-> info,
                   info |-> r.info, requestIdString |-> r.requestIdString,
                   prev |-> <<>>, line |-> cloudWatchFormatter(r.info),
                   idBefore |-> NsGet(session, "requestId"),
                   idAfter |-> NsGet(r.ns, "requestId")]
  /\ UNCHANGED <<header, reqId, mw, running, pending, scheduled, uuidCount, raised,
               outcome>>

\* The running callback passes the record just formatted to the formatter again.
LogAgain ==
  /\ running # Idle
  /\ fmt.n \in 1..(MaxCalls - 1)
  /\ LET r == requestIdFormatter(fmt.info, fmt.options, session)
     IN /\ session' = r.ns
        /\ fmt' = [fmt EXCEPT !.n = @ + 1, !.given = fmt.info, !.info = r.info,
                              !.requestIdString = r.requestIdString,
                              !.prev = fmt.requestIdString,
                              !.line = cloudWatchFormatter(r.info),
                              !.idBefore = NsGet(session, "requestId"),
                              !.idAfter = NsGet(r.ns, "requestId")]
  /\ UNCHANGED <<header, reqId, mw, running, pending, scheduled, uuidCount, raised,
               outcome>>

Next ==
  \/ \E r \in Req, h \in SampleHeaders : Middleware(r, h)
  \/ NextReturns
  \/ \E e \in Errors : NextThrows(e)
  \/ Schedule
  \/ \E a \in pending : RunContinuation(a)
  \/ Background
  \/ Finish
  \/ \E o \in Options, m \in Messages : Log(o, m)
  \/ LogAgain

Spec == Init /\ [][Next]_vars

\* One request with any header of bounded length.
NextHdr ==
  \/ mw[1] = "idle" /\ \E h \in AllHeaders : Middleware(1, h)
  \/ \E o \in Options : Log(o, CompletionMessage)
  \/ NextReturns

SpecHdr == Init /\ [][NextHdr]_vars

\* The values that follow the first one of a repeated header.
LaterValues ==
  { <<>>,
    <<"-", "-", "b">>,
    <<"a", "-", "a", "-", "a", ";", "b">> }

\* Every repeated header: a first value of at most MaxValueLen characters and
\* at most MaxLater later values.
ArrayHeaders ==
  {Arr(<<first>> \o later) :
     first \in UNION {[1..n -> HeaderChars] : n \in 0..MaxValueLen},
     later \in UNION {[1..n -> LaterValues] : n \in 0..MaxLater}}

\* One request with any repeated header.
NextArr ==
  \/ mw[1] = "idle" /\ \E h \in ArrayHeaders : Middleware(1, h)
  \/ \E o \in Options : Log(o, CompletionMessage)
  \/ NextReturns

SpecArr == Init /\ [][NextArr]_vars

\* ------------------------------------------------------ claim vocabulary
\* The text before the first ';'.
FirstField(s) ==
  IF \E i \in 1..Len(s) : s[i] = ";"
    THEN SubSeq(s, 1, (CHOOSE i \in 1..Len(s) :
                         s[i] = ";" /\ \A j \in 1..(i - 1) : s[j] # ";") - 1)
    ELSE s

Hyphens(f) == {i \in 1..Len(f) : f[i] = "-"}

\* The text between the second hyphen and the next hyphen (or the end).
ThirdSegment(f) ==
  LET h2 == CHOOSE i \in Hyphens(f) : Cardinality({j \in Hyphens(f) : j < i}) = 1
      after == {i \in Hyphens(f) : i > h2}
      stop == IF after = {} THEN Len(f) + 1
              ELSE CHOOSE i \in after : \A j \in after : i <= j
  IN SubSeq(f, h2 + 1, stop - 1)

\* A header value with at least three hyphen-delimited segments in its first
\* field, the third not empty.
WellFormed(h) ==
  /\ h.t = "string"
  /\ Cardinality(Hyphens(FirstField(h.v))) >= 2
  /\ ThirdSegment(FirstField(h.v)) # <<>>

\* sub occurs in s starting at position i.
OccursAt(s, sub, i) ==
  /\ i + Len(sub) - 1 <= Len(s)
  /\ \A k \in 1..Len(sub) : s[i + k - 1] = sub[k]

Occurrences(s, sub) == Cardinality({i \in 1..Len(s) : OccursAt(s, sub, i)})

InRequest == running.req \in Req /\ fmt.n > 0

\* ----------------------------------------------------------------- claims
\* C1: with several requests in flight, every formatter call made from code of
\* request r's chain renders and attaches r's identifier (req.requestId of r).
C1_Isolation ==
  \A r \in Req :
    (running.req = r /\ fmt.n > 0) =>
      /\ fmt.requestIdString = Display(reqId[r])
      /\ "requestId" \in DOMAIN fmt.info
      /\ fmt.info["requestId"] = reqId[r]

\* A continuation of r logs while another request with another identifier has a
\* continuation pending.
C1_Witness ==
  \E r, q \in Req :
    /\ r # q
    /\ running.req = r /\ running.kind = "continuation" /\ fmt.n > 0
    /\ reqId[q] # Undefined /\ reqId[q] # reqId[r]
    /\ \E t \in pending : t.req = q

\* C2: a continuation scheduled, directly or transitively, from a request's chain
\* runs with an active context that holds that request's identifier.
C2_ContinuationContext ==
  (running.kind = "continuation" /\ running.req \in Req) =>
    /\ session.active # 0
    /\ NsGet(session, "requestId") = reqId[running.req]

\* A continuation scheduled by a continuation runs after the middleware returned.
C2_Witness ==
  /\ running.kind = "continuation" /\ running.req \in Req
  /\ running.depth >= 2
  /\ mw[running.req] = "returned"

\* C3: a well-formed header resolves to source 'aws' and to the third
\* hyphen-delimited segment of its first semicolon-delimited field.
C3_Upstream ==
  (mw[1] # "idle" /\ WellFormed(header[1])) =>
    reqId[1] = [from |-> "aws", id |-> ThirdSegment(FirstField(header[1].v))]

\* A well-formed header with a fourth segment and a second field.
C3_Witness ==
  /\ mw[1] = "next" /\ WellFormed(header[1])
  /\ Cardinality(Hyphens(FirstField(header[1].v))) >= 3
  /\ Len(FirstField(header[1].v)) < Len(header[1].v)
  /\ reqId[1] # Undefined

\* C4: an absent or malformed header raises nothing, resolves to source 'int'
\* with a newly generated id, and next is invoked.
C4_Generated ==
  (mw[1] # "idle" /\ ~WellFormed(header[1])) =>
    /\ mw[1] \in {"next", "returned"}
    /\ uuidCount = 1
    /\ reqId[1] = [from |-> "int", id |-> uuidv4(0)]

\* A header whose first field has three segments, the third empty.
C4_Witness ==
  /\ mw[1] = "next" /\ header[1].t = "string"
  /\ Cardinality(Hyphens(FirstField(header[1].v))) >= 2
  /\ ~WellFormed(header[1])
  /\ reqId[1] # Undefined

C6_Metadata ==
  (InRequest /\ fmt.options \in {Undefined, [addToMessage |-> FALSE]}) =>
    /\ fmt.info["message"] = fmt.given["message"]
    /\ "requestId" \in DOMAIN fmt.info
    /\ fmt.info["requestId"] = reqId[running.req]

C6_Witness ==
  /\ InRequest /\ fmt.options = Undefined
  /\ fmt.info["message"] = CompletionMessage

\* C7: a formatter call outside every request's context yields "[no-request]"
\* and attaches no requestId, whatever requests ran or are running.
C7_NoRequest ==
  (running.req = 0 /\ fmt.n > 0) =>
    /\ fmt.requestIdString = NoRequest
    /\ "requestId" \notin DOMAIN fmt.info

\* A background call while one request is complete and another has work pending.
C7_Witness ==
  /\ running.req = 0 /\ fmt.n > 0
  /\ fmt.options = [addToMessage |-> FALSE]
  /\ \E t \in pending : t.req \in Req
  /\ \E q \in Req : mw[q] = "returned" /\ \A t \in pending : t.req # q

\* C8: the completion line of a request with a generated id X, logged through
\* the combined pipeline with addToMessage=true, shows the id once, as "[int:X]"
\* right before "info: GET / -> HTTP 200 in 4ms".
C8_CompletionLine ==
  (InRequest /\ fmt.n = 1 /\ fmt.options = [addToMessage |-> TRUE]
   /\ reqId[running.req].from = "int"
   /\ fmt.given["message"] = CompletionMessage) =>
    /\ Occurrences(fmt.line,
                   Display(reqId[running.req]) \o <<" ", "info", ":", " ">>
                   \o CompletionMessage) = 1
    /\ Occurrences(fmt.line, reqId[running.req].id) = 1

\* C9: a second call on the same record in the same context yields the same
\* display string, and each call leaves the context's identifier as it was.
C9_Idempotent ==
  InRequest =>
    /\ fmt.idBefore = fmt.idAfter
    /\ fmt.idAfter = reqId[running.req]
    /\ fmt.n >= 2 => fmt.requestIdString = fmt.prev

C9_Witness ==
  /\ InRequest /\ fmt.n = 2
  /\ fmt.options = [addToMessage |-> TRUE]
  /\ fmt.requestIdString = Display(reqId[running.req])

\* C10: a formatter call changes the record only: the namespace (active context,
\* contexts, stack), every req.requestId and the scheduled work stay as they were.
C10_Frame ==
  [][((\E o \in Options, m \in Messages : Log(o, m)) \/ LogAgain) =>
       UNCHANGED <<session, reqId, pending, scheduled, mw, running, uuidCount,
                   raised, outcome>>]_vars

C10_Witness ==
  /\ fmt.n > 0 /\ running.kind = "handler"
  /\ fmt.options = [addToMessage |-> FALSE]
  /\ session.active = running.ctx

\* C11: with a repeated header only the first value counts: its third segment
\* from source 'aws' when it is well-formed, a generated id otherwise, whatever
\* the later values are.
C11_FirstValueOnly ==
  (mw[1] # "idle" /\ header[1].t = "array" /\ Len(header[1].v) >= 1) =>
    LET first == Str(header[1].v[1])
    IN reqId[1] = IF WellFormed(first)
                    THEN [from |-> "aws",
                          id |-> ThirdSegment(FirstField(first.v))]
                    ELSE [from |-> "int", id |-> uuidv4(0)]

\* A malformed first value followed by a well-formed one resolves to 'int'.
C11_Witness ==
  /\ mw[1] = "next" /\ header[1].t = "array" /\ Len(header[1].v) >= 2
  /\ header[1].v[1] # <<>>
  /\ ~WellFormed(Str(header[1].v[1]))
  /\ WellFormed(Str(header[1].v[2]))
  /\ reqId[1] # Undefined /\ reqId[1].from = "int"

\* C12: when the chain behind next() throws, the middleware call ends by
\* throwing that same error to its caller, and the step changes no context's
\* contents, no req.requestId and no pending work of any request.
C12_ErrorPropagates ==
  [][\A r \in Req :
       (raised[r] = NoError /\ raised'[r] # NoError) =>
         /\ outcome'[r].t = "throw"
         /\ outcome'[r].error.id = raised'[r].id
         /\ \A c \in DOMAIN session.contexts :
              session'.contexts[c] = session.contexts[c]
         /\ pending' = pending
         /\ reqId' = reqId]_vars

\* A request's chain has thrown while another request has a continuation pending.
C12_Witness ==
  \E r, q \in Req :
    /\ r # q
    /\ raised[r] # NoError /\ outcome[r].t = "throw"
    /\ \E a \in pending :
         /\ a.req = q /\ a.ctx # 0
         /\ session.contexts[a.ctx]["requestId"] = reqId[q]

\* C13: when next() is invoked the identifier is already in the new context
\* under 'requestId' and on req.requestId, next() runs inside that context, and
\* wherever code of the request runs the context's identifier is req.requestId.
C13_ContextMatchesRequest ==
  \A r \in Req :
    /\ mw[r] = "next" =>
         /\ running.kind = "handler" /\ running.req = r
         /\ session.active = running.ctx
         /\ reqId[r] # Undefined
         /\ NsGet(session, "requestId") = reqId[r]
    /\ running.req = r =>
         /\ reqId[r] # Undefined
         /\ session.active # 0
         /\ session.contexts[session.active]["requestId"] = reqId[r]

\* A first-level continuation of a request with an upstream id, after next()
\* returned.
C13_Witness ==
  /\ running.kind = "continuation" /\ running.req \in Req
  /\ running.depth = 1
  /\ mw[running.req] = "returned"
  /\ reqId[running.req].from = "aws"

\* C14: after a request's chain has thrown, the formatter calls of the
\* continuations it had scheduled still render and attach the request's
\* identifier, and the context still holds it after each call.
C14_AbortedChainKeepsId ==
  (running.kind = "continuation" /\ running.req \in Req
   /\ raised[running.req] # NoError /\ fmt.n > 0) =>
    /\ fmt.requestIdString = Display(reqId[running.req])
    /\ "requestId" \in DOMAIN fmt.info
    /\ fmt.info["requestId"] = reqId[running.req]
    /\ fmt.idAfter = reqId[running.req]

\* A continuation logs after the chain that scheduled it has thrown.
C14_Witness ==
  /\ running.kind = "continuation" /\ running.req \in Req
  /\ raised[running.req] # NoError /\ mw[running.req] = "threw"
  /\ fmt.n > 0
  /\ fmt.requestIdString # NoRequest

====
